---- MODULE Spec2Model ----
(***************************************************************************)
(* waflib/Runner.py: the Parallel driver (start, refill_task_list,         *)
(* get_out, mark_finished, prio_and_split, task_status ...), the Spawner   *)
(* thread and the Consumer threads, as one state machine.                  *)
(*                                                                         *)
(* Task, TaskGroup, the build context and the task iterator live in other  *)
(* files of waflib; what the model needs of them is taken from their       *)
(* documented contract:                                                    *)
(*   - runnable_status() returns RUN_ME, ASK_LATER, SKIP_ME or CANCEL_ME,  *)
(*     or raises;                                                          *)
(*   - process() sets the task's own hasrun to SUCCESS or to a failure     *)
(*     value and does not raise;                                           *)
(*   - a TaskGroup's hasrun is NOT_RUN as long as one task of its prev     *)
(*     has not run;                                                        *)
(*   - the iterator gives the groups in order and then empty lists;        *)
(*   - more_tasks and tasks (add_more_tasks reads both) are one list.      *)
(* Python sets are iterated in an order the program does not control: the  *)
(* loops of mark_finished take every order; the depth-first visits take    *)
(* ascending order (their result does not depend on it for the builds      *)
(* below).                                                                 *)
(***************************************************************************)
EXTENDS Integers, Sequences, FiniteSets, TLC

\* Runner.py:16
GAP == 20

\* numjobs ranges over 1..MaxJobs, bld.keep over 0..MaxKeep
MaxJobs == 2
MaxKeep == 2

\* the null task that start() puts on ready when it is over
None == 0

\* values of Task.hasrun
NOT_RUN == "NOT_RUN"
SUCCESS == "SUCCESS"
CRASHED == "CRASHED"
EXCEPTION == "EXCEPTION"
CANCELED == "CANCELED"
SKIPPED == "SKIPPED"

\* results of runnable_status(); RAISE stands for an exception raised by it
RUN_ME == "RUN_ME"
ASK_LATER == "ASK_LATER"
SKIP_ME == "SKIP_ME"
CANCEL_ME == "CANCEL_ME"
RAISE == "RAISE"
AllStatus == {RUN_ME, ASK_LATER, SKIP_ME, CANCEL_ME, RAISE}

\* the value of an attribute that was never assigned
UNSET == "UNSET"

(***************************************************************************)
(* Sequences                                                               *)
(***************************************************************************)
SeqToSet(s) == {s[i] : i \in 1..Len(s)}

\* the permutations of a finite set, as sequences
Orders(S) ==
  {o \in [1..Cardinality(S) -> S] : \A i, j \in 1..Cardinality(S) : o[i] = o[j] => i = j}

(***************************************************************************)
(* The builds given to the scheduler.  Tasks are 1..n, TaskGroup barriers  *)
(* are numbers above 100.  Every run_after names tasks of the same batch   *)
(* (group or more_tasks list) or of an earlier one, as the iterator        *)
(* guarantees; a cycle is therefore inside one batch.                      *)
(***************************************************************************)
NoGroups == [g \in {} |-> [prev |-> {}, next |-> {}, done |-> FALSE]]

Build(n, ra, groups) ==
  [ tasks      |-> 1..n,
    run_after  |-> ra,
    groups     |-> groups,
    tg         |-> NoGroups,
    more_tasks |-> [t \in 1..n |-> <<>>],
    priority   |-> [t \in 1..n |-> 0],
    status     |-> [t \in 1..n |-> AllStatus],
    outcome    |-> [t \in 1..n |-> {SUCCESS, CRASHED}],
    jobs       |-> 1..MaxJobs,
    keeps      |-> 0..MaxKeep,
    verbose    |-> BOOLEAN ]

\* A -> B -> C in one group (B after A, C after B)
Chain == Build(3, <<{}, {1}, {2}>>, << <<1, 2, 3>> >>)

\* A, then B after A, in a first group; an independent task in a second group
TwoGroups ==
  [Build(3, <<{}, {1}, {}>>, << <<1, 2>>, <<3>> >>)
     EXCEPT !.status = [t \in 1..3 |-> {RUN_ME, SKIP_ME, RAISE}],
            !.outcome = [t \in 1..3 |-> {SUCCESS}]]

\* A; then B, C, D after A
FanOut ==
  [Build(4, <<{}, {1}, {1}, {1}>>, << <<1, 2, 3, 4>> >>)
     EXCEPT !.status = [t \in 1..4 |-> {RUN_ME, RAISE}],
            !.outcome = [t \in 1..4 |-> IF t = 1 THEN {SUCCESS, CRASHED} ELSE {SUCCESS}],
            !.verbose = {FALSE}]

\* C after A and B
Join ==
  [Build(3, <<{}, {}, {1, 2}>>, << <<1, 2, 3>> >>)
     EXCEPT !.status = [t \in 1..3 |-> {RUN_ME, SKIP_ME, ASK_LATER}],
            !.keeps = {0}, !.verbose = {FALSE}]

\* W alone, and the cycle X -> Y -> Z -> X, in one group
Cycle == Build(4, <<{}, {4}, {2}, {3}>>, << <<1, 2, 3, 4>> >>)

\* tasks 1 and 2 before the barrier 101, tasks 3 and 4 after it
Barrier ==
  [Build(4, <<{}, {}, {101}, {101}>>, << <<1, 2, 3, 4>> >>)
     EXCEPT !.tg = [g \in {101} |-> [prev |-> {1, 2}, next |-> {3, 4}, done |-> FALSE]],
            !.status = [t \in 1..4 |-> {RUN_ME, SKIP_ME}],
            !.outcome = [t \in 1..4 |-> {SUCCESS}],
            !.keeps = {0}, !.verbose = {FALSE}]

\* task 1 before the barrier 101, task 2 after it, and task 1 after task 2
BarrierCycle ==
  [Build(2, <<{2}, {101}>>, << <<1, 2>> >>)
     EXCEPT !.tg = [g \in {101} |-> [prev |-> {1}, next |-> {2}, done |-> FALSE]]]

\* A publishes more_tasks = [A1, A2], A2 after A1; a second group follows
Dynamic ==
  [Build(4, <<{}, {}, {2}, {}>>, << <<1>>, <<4>> >>)
     EXCEPT !.more_tasks = [t \in 1..4 |-> IF t = 1 THEN <<2, 3>> ELSE <<>>],
            !.status = [t \in 1..4 |-> {RUN_ME, SKIP_ME, ASK_LATER}],
            !.outcome = [t \in 1..4 |-> {SUCCESS}],
            !.keeps = {0}, !.verbose = {FALSE}]

\* A publishes more_tasks = [A1, A2] that depend on each other
DynamicCycle ==
  [Build(3, <<{}, {3}, {2}>>, << <<1>> >>)
     EXCEPT !.more_tasks = [t \in 1..3 |-> IF t = 1 THEN <<2, 3>> ELSE <<>>],
            !.status = [t \in 1..3 |-> {RUN_ME, SKIP_ME}],
            !.outcome = [t \in 1..3 |-> {SUCCESS}],
            !.keeps = {0}, !.verbose = {FALSE}]

\* more independent tasks than numjobs * GAP, one job
Wide ==
  [Build(GAP + 2, [t \in 1..(GAP + 2) |-> {}], << [i \in 1..(GAP + 2) |-> i] >>)
     EXCEPT !.status = [t \in 1..(GAP + 2) |-> {RUN_ME}],
            !.outcome = [t \in 1..(GAP + 2) |-> {SUCCESS}],
            !.jobs = {1}, !.keeps = {0}, !.verbose = {FALSE}]

\* A and B independent, C after B: B has the greater prio, A is first in the list
Prio ==
  [Build(3, <<{}, {}, {2}>>, << <<1, 2, 3>> >>)
     EXCEPT !.status = [t \in 1..3 |-> {RUN_ME, ASK_LATER, SKIP_ME}],
            !.outcome = [t \in 1..3 |-> {SUCCESS}],
            !.keeps = {0}, !.verbose = {FALSE}]

\* A and P in one group; A publishes more_tasks = [M], M after the barrier 101
\* that waits for A and P: the barrier is first seen by add_more_tasks
LateBarrier ==
  [Build(3, <<{}, {}, {101}>>, << <<1, 2>> >>)
     EXCEPT !.tg = [g \in {101} |-> [prev |-> {1, 2}, next |-> {3}, done |-> FALSE]],
            !.more_tasks = [t \in 1..3 |-> IF t = 1 THEN <<3>> ELSE <<>>],
            !.status = [t \in 1..3 |-> IF t = 1 THEN {RUN_ME, SKIP_ME} ELSE {RUN_ME}],
            !.outcome = [t \in 1..3 |-> {SUCCESS}],
            !.keeps = {0}, !.verbose = {FALSE}]

Builds ==
  {Chain, TwoGroups, FanOut, Join, Cycle, Barrier, BarrierCycle, Dynamic, DynamicCycle, Wide,
   Prio, LateBarrier}

VARIABLES
  input,        \* the build: the tasks' hooks and their more_tasks (never changes)
  numjobs,      \* Parallel.numjobs
  keep,         \* bld.keep
  verbose,      \* Logs.verbose > 1
  biter,        \* Parallel.biter: the groups it has not given yet
  run_after,    \* Task.run_after
  hasrun,       \* Task.hasrun
  visited,      \* Task.visited
  prio,         \* Task.prio
  err_msg,      \* Task.err_msg is set
  tg,           \* the TaskGroup objects: prev, next, done
  outstanding, frozen, incomplete, ready, out, count, processed, stop, error,
  revdeps,
  deadlock,     \* Parallel.deadlock
  pc,           \* where the driver is in start()
  tsk,          \* the local tsk of start()
  exc,          \* the exception that start() raised, "none" if none
  sem,          \* Spawner.sem
  sp_pc,        \* where the Spawner is in loop()
  sp_task,      \* the local task of loop()
  wpc,          \* where the Consumer of each task is in run()
  dispatched    \* history: the tasks handed to execution, in order

vars == <<input, numjobs, keep, verbose, biter, run_after, hasrun, visited, prio, err_msg,
          tg, outstanding, frozen, incomplete, ready, out, count, processed, stop, error,
          revdeps, deadlock, pc, tsk, exc, sem, sp_pc, sp_task, wpc, dispatched>>

Tasks == input.tasks
Barriers == DOMAIN tg

\* Parallel.__init__ and Spawner.__init__, then the call of start()
Init ==
  /\ input \in Builds
  /\ numjobs \in input.jobs
  /\ keep \in input.keeps
  /\ verbose \in input.verbose
  /\ biter = input.groups
  /\ run_after = [t \in input.tasks |-> input.run_after[t]]
  /\ hasrun = [t \in input.tasks |-> NOT_RUN]
  /\ visited = [t \in input.tasks |-> 0]
  /\ prio = [t \in input.tasks |-> 0]
  /\ err_msg = [t \in input.tasks |-> FALSE]
  /\ tg = input.tg
  /\ outstanding = <<>>
  /\ frozen = {}
  /\ incomplete = <<>>
  /\ ready = <<>>
  /\ out = <<>>
  /\ count = 0
  /\ processed = 1
  /\ stop = FALSE
  /\ error = <<>>
  /\ revdeps = [t \in input.tasks |-> {}]
  /\ deadlock = UNSET
  /\ pc = "loop"
  /\ tsk = None
  /\ exc = "none"
  /\ sem = numjobs
  /\ sp_pc = "get"
  /\ sp_task = None
  /\ wpc = [t \in input.tasks \cup {None} |-> "none"]
  /\ dispatched = <<>>

(***************************************************************************)
(* The driver's data as one record, for the methods below: each takes the  *)
(* record and gives it back changed.                                       *)
(***************************************************************************)
Drv ==
  [ run_after |-> run_after, hasrun |-> hasrun, visited |-> visited, prio |-> prio,
    tg |-> tg, revdeps |-> revdeps, outstanding |-> outstanding, frozen |-> frozen,
    exc |-> exc ]

Assign(d) ==
  /\ run_after' = d.run_after
  /\ hasrun' = d.hasrun
  /\ visited' = d.visited
  /\ prio' = d.prio
  /\ tg' = d.tg
  /\ revdeps' = d.revdeps
  /\ outstanding' = d.outstanding
  /\ frozen' = d.frozen
  /\ exc' = d.exc

\* isinstance(n, Task.TaskGroup)
IsTaskGroup(d, n) == n \in DOMAIN d.tg

\* k.hasrun, for a task or for a TaskGroup
HasRunOf(d, k) ==
  IF IsTaskGroup(d, k)
  THEN IF \A j \in d.tg[k].prev : d.hasrun[j] # NOT_RUN THEN SUCCESS ELSE NOT_RUN
  ELSE d.hasrun[k]

\* Parallel.insert_with_prio
insert_with_prio(d, x) ==
  IF d.outstanding # <<>> /\ d.prio[x] >= d.prio[Head(d.outstanding)]
  THEN [d EXCEPT !.outstanding = <<x>> \o @]
  ELSE [d EXCEPT !.outstanding = Append(@, x)]

\* try_unfreeze without the test of x.run_after
try_unfreeze_unchecked(d, x) ==
  IF x \in d.frozen
  THEN insert_with_prio([d EXCEPT !.frozen = @ \ {x}], x)
  ELSE d

\* try_unfreeze that leaves x frozen
try_unfreeze_never(d, x) == d

\* try_unfreeze, inside Parallel.mark_finished
try_unfreeze(d, x) ==
  IF x \in d.frozen /\ \A k \in d.run_after[x] : HasRunOf(d, k) # NOT_RUN
  THEN insert_with_prio([d EXCEPT !.frozen = @ \ {x}], x)
  ELSE d

\* mark_finished, lines 255-258: for k in x.next, in the order gord
RECURSIVE unfreeze_next(_, _, _, _)
unfreeze_next(d, x, gord, i) ==
  IF i > Len(gord) THEN d
  ELSE LET k == gord[i] IN
       IF k \in d.tg[x].next
       THEN unfreeze_next(try_unfreeze([d EXCEPT !.run_after[k] = @ \ {x}], k), x, gord, i + 1)
       ELSE unfreeze_next(d, x, gord, i + 1)

\* mark_finished, lines 252-262: one x of revdeps[t]
finish_dependent(d, t, x, gord) ==
  IF IsTaskGroup(d, x)
  THEN LET d1 == [d EXCEPT !.tg[x].prev = @ \ {t}] IN
       IF d1.tg[x].prev = {}
       THEN [unfreeze_next(d1, x, gord, 1) EXCEPT !.tg[x].next = {}]
       ELSE d1
  ELSE try_unfreeze(d, x)

RECURSIVE finish_dependents(_, _, _, _, _)
finish_dependents(d, t, ord, gord, i) ==
  IF i > Len(ord) THEN d
  ELSE finish_dependents(finish_dependent(d, t, ord[i], gord), t, ord, gord, i + 1)

\* mark_finished that forgets the dependents of t
mark_finished_forgets(d, t, ord, gord) == [d EXCEPT !.revdeps[t] = {}]

\* Parallel.mark_finished, with revdeps[t] iterated in the order ord
mark_finished(d, t, ord, gord) ==
  IF d.revdeps[t] # {}
  THEN [finish_dependents(d, t, ord, gord, 1) EXCEPT !.revdeps[t] = {}]
  ELSE d

\* the tasks behind the barriers that wait for t
NextOf(d, t) == UNION {d.tg[x].next : x \in d.revdeps[t] \cap DOMAIN d.tg}

\* Parallel.mark_finished under every iteration order of its sets
mark_finished_any(d, t) ==
  {mark_finished(d, t, ord, gord) : ord \in Orders(d.revdeps[t]), gord \in Orders(NextOf(d, t))}

(***************************************************************************)
(* Parallel.prio_and_split                                                 *)
(***************************************************************************)
\* lines 438-448: the reverse edges of the tasks of the list
reverse_edges(d, tasks) ==
  LET T == SeqToSet(tasks)
      newg == {k \in DOMAIN d.tg : ~d.tg[k].done /\ \E x \in T : k \in d.run_after[x]}
  IN [d EXCEPT
        !.revdeps = [n \in DOMAIN @ |->
                       @[n] \cup {x \in T : n \in d.run_after[x]}
                            \cup {k \in newg : n \in d.tg[k].prev}],
        !.tg = [k \in DOMAIN @ |-> IF k \in newg THEN [@[k] EXCEPT !.done = TRUE] ELSE @[k]]]

\* the first element of a set of nodes in the order the visits take
First(S) == CHOOSE x \in S : \A y \in S : x <= y

\* line 459: n.prio = n.priority() + len(rev) + sum(...), r the state after the sum
set_prio(d, n, r) ==
  IF r.cyc THEN r
  ELSE [r EXCEPT !.prio[n] = input.priority[n] + Cardinality(d.revdeps[n]) + r.val,
                 !.visited[n] = 2,
                 !.val = input.priority[n] + Cardinality(d.revdeps[n]) + r.val]

add_val(v, b) == IF b.cyc THEN b ELSE [b EXCEPT !.val = v + b.val]

\* lines 451-465: visit(n); w = [visited, prio, cyc, val], val the value returned
RECURSIVE visit(_, _, _), visit_all(_, _, _), visit_rest(_, _, _)
visit(d, n, w) ==
  IF w.cyc THEN w
  ELSE IF IsTaskGroup(d, n) THEN visit_all(d, d.tg[n].next, w)
  ELSE IF w.visited[n] = 0
  THEN IF d.revdeps[n] # {}
       THEN set_prio(d, n, visit_all(d, d.revdeps[n], [w EXCEPT !.visited[n] = 1]))
       ELSE [w EXCEPT !.prio[n] = input.priority[n], !.visited[n] = 2,
                      !.val = input.priority[n]]
  ELSE IF w.visited[n] = 1 THEN [w EXCEPT !.cyc = TRUE]
  ELSE [w EXCEPT !.val = w.prio[n]]

\* sum(visit(k) for k in S)
visit_all(d, S, w) ==
  IF S = {} \/ w.cyc THEN [w EXCEPT !.val = 0]
  ELSE visit_rest(d, S \ {First(S)}, visit(d, First(S), w))

\* the rest of the sum, a the state after the first visit
visit_rest(d, S, a) ==
  IF a.cyc THEN a ELSE add_val(a.val, visit_all(d, S, a))

\* Parallel.debug_cycles: visit(n, acc); w = [tmp, exc]
\* line 503: tmp[n] = 2, unless the visits below n raised
set_tmp(n, r) == IF r.exc # "none" THEN r ELSE [r EXCEPT !.tmp[n] = 2]

RECURSIVE dvisit(_, _, _, _), dvisit_all(_, _, _, _)
dvisit(d, T, n, w) ==
  IF w.exc # "none" THEN w
  ELSE IF IsTaskGroup(d, n) /\ d.tg[n].next # {} THEN [w EXCEPT !.exc = "TypeError"]
  ELSE IF n \notin T THEN [w EXCEPT !.exc = "KeyError"]
  ELSE IF w.tmp[n] = 0
  THEN set_tmp(n, dvisit_all(d, T, d.revdeps[n], [w EXCEPT !.tmp[n] = 1]))
  ELSE IF w.tmp[n] = 1 THEN [w EXCEPT !.exc = "WafError: Task dependency cycle"]
  ELSE w

dvisit_all(d, T, S, w) ==
  IF S = {} \/ w.exc # "none" THEN w
  ELSE dvisit_all(d, T, S \ {First(S)}, dvisit(d, T, First(S), w))

RECURSIVE dvisit_tasks(_, _, _, _)
dvisit_tasks(d, tasks, i, w) ==
  IF i > Len(tasks) \/ w.exc # "none" THEN w
  ELSE dvisit_tasks(d, tasks, i + 1, dvisit(d, SeqToSet(tasks), tasks[i], w))

\* Parallel.debug_cycles: the exception it raises, "none" if it returns
debug_cycles(d, tasks) ==
  dvisit_tasks(d, tasks, 1, [tmp |-> [t \in DOMAIN d.hasrun |-> 0], exc |-> "none"]).exc

\* lines 471-474: the visit of x is over in the state w; a cycle goes to debug_cycles
after_visit(d, tasks, w) ==
  IF w.cyc
  THEN [d EXCEPT !.visited = w.visited, !.prio = w.prio,
                 !.exc = debug_cycles([d EXCEPT !.visited = w.visited, !.prio = w.prio], tasks)]
  ELSE [d EXCEPT !.visited = w.visited, !.prio = w.prio]

\* lines 467-474
RECURSIVE visit_tasks(_, _, _)
visit_tasks(d, tasks, i) ==
  IF i > Len(tasks) \/ d.exc # "none" THEN d
  ELSE IF d.visited[tasks[i]] # 0 THEN visit_tasks(d, tasks, i + 1)
  ELSE visit_tasks(after_visit(d, tasks,
                               visit(d, tasks[i], [visited |-> d.visited, prio |-> d.prio,
                                                   cyc |-> FALSE, val |-> 0])),
                   tasks, i + 1)

\* lines 478-484: x waits when one k of x.run_after has not run
is_waiting(d, x) == \E k \in d.run_after[x] : HasRunOf(d, k) = NOT_RUN

\* prio_and_split that returns the ready tasks in the order of the list
sort_by_prio_unsorted(p, s, acc) == acc \o s

\* line 486: ready.sort(key=lambda x: x.prio, reverse=True), a stable sort
RECURSIVE sort_by_prio(_, _, _)
sort_by_prio(p, s, acc) ==
  IF s = <<>> THEN acc
  ELSE LET x == Head(s)
           pos == Cardinality({i \in 1..Len(acc) : p[acc[i]] >= p[x]})
       IN sort_by_prio(p, Tail(s),
                       SubSeq(acc, 1, pos) \o <<x>> \o SubSeq(acc, pos + 1, Len(acc)))

\* lines 433-434: x.visited = 0 for the tasks of the list
reset_visited(d, tasks) ==
  [d EXCEPT !.visited = [t \in DOMAIN @ |-> IF t \in SeqToSet(tasks) THEN 0 ELSE @[t]]]

\* lines 476-487: the tasks that can run, sorted, and the ones that wait
split(d, tasks) ==
  [ d       |-> d,
    ready   |-> sort_by_prio(d.prio, SelectSeq(tasks, LAMBDA x : ~is_waiting(d, x)), <<>>),
    waiting |-> {x \in SeqToSet(tasks) : is_waiting(d, x)} ]

\* Parallel.prio_and_split: [d, ready, waiting]; d.exc tells what it raised
prio_and_split(d, tasks) ==
  split(visit_tasks(reverse_edges(reset_visited(d, tasks), tasks), tasks, 1), tasks)

RECURSIVE insert_all(_, _, _)
insert_all(d, s, i) ==
  IF i > Len(s) THEN d ELSE insert_all(insert_with_prio(d, s[i]), s, i + 1)

\* add_more_tasks, lines 229-232, r the result of prio_and_split
insert_ready(r) ==
  IF r.d.exc # "none" THEN r.d
  ELSE [insert_all(r.d, r.ready, 1) EXCEPT !.frozen = @ \cup r.waiting]

\* Parallel.add_more_tasks
add_more_tasks(d, t) ==
  IF input.more_tasks[t] # <<>>
  THEN insert_ready(prio_and_split(d, input.more_tasks[t]))
  ELSE d

\* get_out, line 275, unless add_more_tasks raised
then_mark_finished(d, t) ==
  IF d.exc # "none" THEN {d} ELSE mark_finished_any(d, t)

\* Parallel.get_out after tsk = self.out.get(), up to mark_finished
get_out(d, t) ==
  then_mark_finished(IF ~stop THEN add_more_tasks(d, t) ELSE d, t)

(***************************************************************************)
(* The driver: Parallel.start                                              *)
(***************************************************************************)
inputs == <<input, numjobs, keep, verbose>>
drvdata == <<run_after, hasrun, visited, prio, tg, revdeps, outstanding, frozen, exc>>
threads == <<sem, sp_pc, sp_task, wpc>>

\* get_out that does not count the task it takes from out
GetOutThenKeepsCount(nextpc) ==
  /\ out # <<>>
  /\ \E d \in get_out(Drv, Head(out)) :
       /\ Assign(d)
       /\ out' = Tail(out)
       /\ pc' = IF d.exc # "none" THEN "raised" ELSE nextpc
       /\ count' = count
  /\ UNCHANGED <<inputs, threads, biter, err_msg, incomplete, ready, processed, stop, error,
                 deadlock, tsk, dispatched>>

\* self.get_out(), then go to nextpc; an exception of add_more_tasks leaves start()
GetOutThen(nextpc) ==
  /\ out # <<>>
  /\ \E d \in get_out(Drv, Head(out)) :
       /\ Assign(d)
       /\ out' = Tail(out)
       /\ IF d.exc # "none"
          THEN pc' = "raised" /\ count' = count
          ELSE pc' = nextpc /\ count' = count - 1
  /\ UNCHANGED <<inputs, threads, biter, err_msg, incomplete, ready, processed, stop, error,
                 deadlock, tsk, dispatched>>

\* line 362: while not self.stop
WhileNotStop ==
  /\ pc = "loop"
  /\ pc' = IF stop THEN "drain" ELSE "backpressure"
  /\ UNCHANGED <<inputs, threads, drvdata, biter, err_msg, incomplete, ready, out, count,
                 processed, stop, error, deadlock, tsk, dispatched>>

\* refill_task_list, lines 177-178: while self.count > self.numjobs * GAP: self.get_out()
BackpressureGetOut ==
  /\ pc = "backpressure"
  /\ count > numjobs * GAP
  /\ GetOutThen("backpressure")

\* lines 177-178 that never wait for a task to come back
BackpressureDoneAlways ==
  /\ pc = "backpressure"
  /\ pc' = "refill"
  /\ UNCHANGED <<inputs, threads, drvdata, biter, err_msg, incomplete, ready, out, count,
                 processed, stop, error, deadlock, tsk, dispatched>>

\* lines 177-178 with the bound off by one: while self.count > self.numjobs * GAP + 1
BackpressureDoneLate ==
  /\ pc = "backpressure"
  /\ count <= numjobs * GAP + 1
  /\ pc' = "refill"
  /\ UNCHANGED <<inputs, threads, drvdata, biter, err_msg, incomplete, ready, out, count,
                 processed, stop, error, deadlock, tsk, dispatched>>

BackpressureDone ==
  /\ pc = "backpressure"
  /\ count <= numjobs * GAP
  /\ pc' = "refill"
  /\ UNCHANGED <<inputs, threads, drvdata, biter, err_msg, incomplete, ready, out, count,
                 processed, stop, error, deadlock, tsk, dispatched>>

\* line 180 left whether outstanding has a task or not
RefillDoneAlways ==
  /\ pc = "refill"
  /\ pc' = "next"
  /\ UNCHANGED <<inputs, threads, drvdata, biter, err_msg, incomplete, ready, out, count,
                 processed, stop, error, deadlock, tsk, dispatched>>

\* line 180: while not self.outstanding, left when outstanding has a task
RefillDone ==
  /\ pc = "refill"
  /\ outstanding # <<>>
  /\ pc' = "next"
  /\ UNCHANGED <<inputs, threads, drvdata, biter, err_msg, incomplete, ready, out, count,
                 processed, stop, error, deadlock, tsk, dispatched>>

\* lines 181-182: if self.count: self.get_out()
RefillGetOut ==
  /\ pc = "refill"
  /\ outstanding = <<>>
  /\ count # 0
  /\ GetOutThen("refill_tail")

\* the message of the deadlock error, lines 186-190
DeadlockMessage ==
  IF \E i \in 1..Len(incomplete) : run_after[incomplete[i]] = {}
  THEN "WafError: Deadlock detected: check the methods runnable_status"
  ELSE "WafError: Deadlock detected: check the build order for the tasks"

\* lines 183-194: elif self.incomplete: cond = self.deadlock == self.processed ...
\* self.deadlock is assigned nowhere in the file: reading it raises AttributeError
RefillDeadlockCheck ==
  /\ pc = "refill"
  /\ outstanding = <<>>
  /\ count = 0
  /\ incomplete # <<>>
  /\ IF deadlock = UNSET THEN pc' = "raised" /\ exc' = "AttributeError"
     ELSE IF deadlock = processed THEN pc' = "raised" /\ exc' = DeadlockMessage
     ELSE pc' = "refill_tail" /\ exc' = exc
  /\ UNCHANGED <<inputs, threads, run_after, hasrun, visited, prio, tg, revdeps, outstanding,
                 frozen, biter, err_msg, incomplete, ready, out, count, processed, stop, error,
                 deadlock, tsk, dispatched>>

\* lines 181-183 when nothing is in flight and nothing is incomplete
RefillIdle ==
  /\ pc = "refill"
  /\ outstanding = <<>>
  /\ count = 0
  /\ incomplete = <<>>
  /\ pc' = "refill_tail"
  /\ UNCHANGED <<inputs, threads, drvdata, biter, err_msg, incomplete, ready, out, count,
                 processed, stop, error, deadlock, tsk, dispatched>>

\* lines 196-198: if self.incomplete: outstanding.extend(incomplete); incomplete.clear()
RefillPromote ==
  /\ pc = "refill_tail"
  /\ incomplete # <<>>
  /\ outstanding' = outstanding \o incomplete
  /\ incomplete' = <<>>
  /\ pc' = "refill"
  /\ UNCHANGED <<inputs, threads, run_after, hasrun, visited, prio, tg, revdeps, frozen, exc,
                 biter, err_msg, ready, out, count, processed, stop, error, deadlock, tsk,
                 dispatched>>

\* refill_task_list, lines 204-205, r the result of prio_and_split
extend_ready(r) ==
  IF r.d.exc # "none" THEN r.d
  ELSE [r.d EXCEPT !.outstanding = @ \o r.ready, !.frozen = @ \cup r.waiting]

\* next(self.biter): the next group, an empty list when all were given
NextGroup == IF biter = <<>> THEN <<>> ELSE Head(biter)

\* lines 199-207: elif not self.count: tasks = next(self.biter) ... break
RefillNextGroup ==
  /\ pc = "refill_tail"
  /\ incomplete = <<>>
  /\ count = 0
  /\ biter' = IF biter = <<>> THEN <<>> ELSE Tail(biter)
  /\ \E d \in {extend_ready(prio_and_split(Drv, NextGroup))} :
       /\ Assign(d)
       /\ pc' = IF d.exc # "none" THEN "raised" ELSE "next"
  /\ UNCHANGED <<inputs, threads, err_msg, incomplete, ready, out, count, processed, stop,
                 error, deadlock, tsk, dispatched>>

\* lines 196-199 when neither branch is taken: back to line 180
RefillAgain ==
  /\ pc = "refill_tail"
  /\ incomplete = <<>>
  /\ count # 0
  /\ pc' = "refill"
  /\ UNCHANGED <<inputs, threads, drvdata, biter, err_msg, incomplete, ready, out, count,
                 processed, stop, error, deadlock, tsk, dispatched>>

\* lines 367-382: no task (continue or break), a task that has run, or stop
GetNextTaskIdle ==
  /\ pc = "next"
  /\ IF outstanding = <<>>
     THEN /\ pc' = IF count # 0 THEN "loop" ELSE "drain"
          /\ UNCHANGED <<outstanding, processed>>
     ELSE /\ outstanding' = Tail(outstanding)
          /\ IF hasrun[Head(outstanding)] # NOT_RUN
             THEN pc' = "loop" /\ processed' = processed + 1
             ELSE stop /\ pc' = "drain" /\ processed' = processed
  /\ UNCHANGED <<inputs, threads, run_after, hasrun, visited, prio, tg, revdeps, frozen, exc,
                 biter, err_msg, incomplete, ready, out, count, stop, error, deadlock, tsk,
                 dispatched>>

\* the task that start() asks for its status: popped, not run yet, stop not set
Asked(t) ==
  /\ pc = "next"
  /\ outstanding # <<>>
  /\ t = Head(outstanding)
  /\ hasrun[t] = NOT_RUN
  /\ ~stop

\* lines 385-396: st == Task.RUN_ME
StatusRunMe(t) ==
  /\ Asked(t)
  /\ RUN_ME \in input.status[t]
  /\ outstanding' = Tail(outstanding)
  /\ count' = count + 1
  /\ processed' = processed + 1
  /\ dispatched' = Append(dispatched, t)
  /\ IF numjobs = 1
     THEN pc' = "inline" /\ tsk' = t /\ ready' = ready
     ELSE pc' = "loop" /\ tsk' = tsk /\ ready' = Append(ready, t)
  /\ UNCHANGED <<inputs, threads, run_after, hasrun, visited, prio, tg, revdeps, frozen, exc,
                 biter, err_msg, incomplete, out, stop, error, deadlock>>

\* lines 391-394 with numjobs == 1: tsk.process() returns, then self.out.put(tsk)
InlineProcess ==
  /\ pc = "inline"
  /\ \E h \in input.outcome[tsk] : hasrun' = [hasrun EXCEPT ![tsk] = h]
  /\ out' = Append(out, tsk)
  /\ tsk' = None
  /\ pc' = "loop"
  /\ UNCHANGED <<inputs, threads, run_after, visited, prio, tg, revdeps, outstanding, frozen,
                 exc, biter, err_msg, incomplete, ready, count, processed, stop, error,
                 deadlock, dispatched>>

\* Parallel.postpone, lines 397-398: st == Task.ASK_LATER
StatusAskLater(t) ==
  /\ Asked(t)
  /\ ASK_LATER \in input.status[t]
  /\ outstanding' = Tail(outstanding)
  /\ \/ incomplete' = <<t>> \o incomplete
     \/ incomplete' = Append(incomplete, t)
  /\ pc' = "loop"
  /\ UNCHANGED <<inputs, threads, run_after, hasrun, visited, prio, tg, revdeps, frozen, exc,
                 biter, err_msg, ready, out, count, processed, stop, error, deadlock, tsk,
                 dispatched>>

\* Parallel.skip
skip(d, t) == mark_finished_any([d EXCEPT !.hasrun[t] = SKIPPED], t)

\* Parallel.cancel
cancel(d, t) == mark_finished_any([d EXCEPT !.hasrun[t] = CANCELED], t)

\* lines 399-402: st == Task.SKIP_ME
StatusSkipMe(t) ==
  /\ Asked(t)
  /\ SKIP_ME \in input.status[t]
  /\ processed' = processed + 1
  /\ \E d \in skip([Drv EXCEPT !.outstanding = Tail(@)], t) :
       \E d1 \in {add_more_tasks(d, t)} :
         /\ Assign(d1)
         /\ pc' = IF d1.exc # "none" THEN "raised" ELSE "loop"
  /\ UNCHANGED <<inputs, threads, biter, err_msg, incomplete, ready, out, count, stop, error,
                 deadlock, tsk, dispatched>>

\* lines 403-409: st == Task.CANCEL_ME
StatusCancelMe(t) ==
  /\ Asked(t)
  /\ CANCEL_ME \in input.status[t]
  /\ error' = IF verbose THEN Append(error, t) ELSE error
  /\ processed' = processed + 1
  /\ \E d \in cancel([Drv EXCEPT !.outstanding = Tail(@)], t) : Assign(d)
  /\ pc' = "loop"
  /\ UNCHANGED <<inputs, threads, biter, err_msg, incomplete, ready, out, count, stop,
                 deadlock, tsk, dispatched>>

\* error_handler that sets stop and does not record the task
error_handler_forgets(e, t) ==
  [stop |-> IF keep = 0 THEN TRUE ELSE e.stop, error |-> e.error]

\* Parallel.error_handler, on e = [stop, error]
error_handler(e, t) ==
  [stop |-> IF keep = 0 THEN TRUE ELSE e.stop, error |-> Append(e.error, t)]

\* task_status that goes on after the first exception with keep == 1, as with -kk
keep_going_never_stops(e, t) ==
  [stop |-> e.stop, error |-> IF verbose \/ e.error = <<>> THEN Append(e.error, t) ELSE e.error]

\* task_status, lines 336-346: what becomes of [stop, error] when keep is set
keep_going(e, t) ==
  IF keep = 1
  THEN [stop |-> TRUE, error |-> IF verbose \/ e.error = <<>> THEN Append(e.error, t) ELSE e.error]
  ELSE [stop |-> e.stop, error |-> IF verbose THEN Append(e.error, t) ELSE e.error]

\* task_status that records the exception with keep == 0 and then returns RUN_ME
StatusRaisesThenRuns(t) ==
  /\ Asked(t)
  /\ RAISE \in input.status[t]
  /\ keep = 0
  /\ processed' = processed + 2
  /\ err_msg' = [err_msg EXCEPT ![t] = TRUE]
  /\ Assign([Drv EXCEPT !.outstanding = Tail(@), !.hasrun[t] = EXCEPTION])
  /\ stop' = TRUE
  /\ error' = Append(error, t)
  /\ count' = count + 1
  /\ dispatched' = Append(dispatched, t)
  /\ ready' = Append(ready, t)
  /\ pc' = "loop"
  /\ UNCHANGED <<inputs, threads, biter, incomplete, out, deadlock, tsk>>

\* Parallel.task_status, lines 333-350: runnable_status() raised
StatusRaises(t) ==
  /\ Asked(t)
  /\ RAISE \in input.status[t]
  /\ processed' = processed + 1
  /\ err_msg' = [err_msg EXCEPT ![t] = TRUE]
  /\ IF ~stop /\ keep # 0
     THEN /\ \E d \in skip([Drv EXCEPT !.outstanding = Tail(@)], t) : Assign(d)
          /\ \E e \in {keep_going([stop |-> stop, error |-> error], t)} :
               stop' = e.stop /\ error' = e.error
     ELSE /\ Assign([Drv EXCEPT !.outstanding = Tail(@), !.hasrun[t] = EXCEPTION])
          /\ \E e \in {error_handler([stop |-> stop, error |-> error], t)} :
               stop' = e.stop /\ error' = e.error
  /\ pc' = "loop"
  /\ UNCHANGED <<inputs, threads, biter, incomplete, ready, out, count, deadlock, tsk,
                 dispatched>>

\* lines 413-414: while self.error and self.count: self.get_out()
DrainGetOut ==
  /\ pc = "drain"
  /\ error # <<>>
  /\ count # 0
  /\ GetOutThen("drain")

\* lines 416-417: self.ready.put(None); assert (self.count == 0 or self.stop)
PutSentinel ==
  /\ pc = "drain"
  /\ ~(error # <<>> /\ count # 0)
  /\ ready' = Append(ready, None)
  /\ IF count = 0 \/ stop
     THEN pc' = "done" /\ exc' = exc
     ELSE pc' = "raised" /\ exc' = "AssertionError"
  /\ UNCHANGED <<inputs, threads, run_after, hasrun, visited, prio, tg, revdeps, outstanding,
                 frozen, biter, err_msg, incomplete, out, count, processed, stop, error,
                 deadlock, tsk, dispatched>>

Driver ==
  \/ WhileNotStop
  \/ BackpressureGetOut
  \/ BackpressureDone
  \/ RefillDone
  \/ RefillGetOut
  \/ RefillDeadlockCheck
  \/ RefillIdle
  \/ RefillPromote
  \/ RefillNextGroup
  \/ RefillAgain
  \/ GetNextTaskIdle
  \/ \E t \in Tasks : StatusRunMe(t)
  \/ InlineProcess
  \/ \E t \in Tasks : StatusAskLater(t)
  \/ \E t \in Tasks : StatusSkipMe(t)
  \/ \E t \in Tasks : StatusCancelMe(t)
  \/ \E t \in Tasks : StatusRaises(t)
  \/ DrainGetOut
  \/ PutSentinel

(***************************************************************************)
(* The Spawner thread: Spawner.loop                                        *)
(***************************************************************************)
drvall == <<drvdata, biter, err_msg, incomplete, count, processed, stop, error, deadlock,
            pc, tsk, dispatched>>

\* line 79: task = master.ready.get()
SpawnerGet ==
  /\ sp_pc = "get"
  /\ ready # <<>>
  /\ sp_task' = Head(ready)
  /\ ready' = Tail(ready)
  /\ sp_pc' = "acquire"
  /\ UNCHANGED <<inputs, drvall, out, sem, wpc>>

\* sem.acquire() that does not wait
SpawnerAcquireNoWait ==
  /\ sp_pc = "acquire"
  /\ sem' = sem - 1
  /\ sp_pc' = "spawn"
  /\ UNCHANGED <<inputs, drvall, ready, out, sp_task, wpc>>

\* line 80: self.sem.acquire()
SpawnerAcquire ==
  /\ sp_pc = "acquire"
  /\ sem > 0
  /\ sem' = sem - 1
  /\ sp_pc' = "spawn"
  /\ UNCHANGED <<inputs, drvall, ready, out, sp_task, wpc>>

\* lines 81-83: log_display unless stop, then Consumer(self, task); None has no
\* log_display: the AttributeError ends the thread (Spawner.run, lines 66-71)
SpawnerSpawn ==
  /\ sp_pc = "spawn"
  /\ IF ~stop /\ sp_task = None
     THEN sp_pc' = "dead" /\ wpc' = wpc
     ELSE sp_pc' = "get" /\ wpc' = [wpc EXCEPT ![sp_task] = "run"]
  /\ UNCHANGED <<inputs, drvall, ready, out, sem, sp_task>>

Spawner == SpawnerGet \/ SpawnerAcquire \/ SpawnerSpawn

(***************************************************************************)
(* The Consumer threads: Consumer.run, one thread per task                 *)
(***************************************************************************)
\* lines 40-41: if not self.spawner.master.stop: self.task.process() is entered
ConsumerRun(w) ==
  /\ wpc[w] = "run"
  /\ wpc' = [wpc EXCEPT ![w] = IF ~stop /\ w # None THEN "process" ELSE "release"]
  /\ UNCHANGED <<inputs, drvall, ready, out, sem, sp_pc, sp_task>>

\* line 41: process() returns, the task has set its hasrun
ConsumerProcess(w) ==
  /\ wpc[w] = "process"
  /\ \E h \in input.outcome[w] : hasrun' = [hasrun EXCEPT ![w] = h]
  /\ wpc' = [wpc EXCEPT ![w] = "release"]
  /\ UNCHANGED <<inputs, run_after, visited, prio, tg, revdeps, outstanding, frozen, exc,
                 biter, err_msg, incomplete, count, processed, stop, error, deadlock, pc, tsk,
                 dispatched, ready, out, sem, sp_pc, sp_task>>

\* line 43: self.spawner.sem.release()
ConsumerRelease(w) ==
  /\ wpc[w] = "release"
  /\ sem' = sem + 1
  /\ wpc' = [wpc EXCEPT ![w] = "put"]
  /\ UNCHANGED <<inputs, drvall, ready, out, sp_pc, sp_task>>

\* a Consumer that gives the task back only when stop is not set
ConsumerPutUnlessStop(w) ==
  /\ wpc[w] = "put"
  /\ out' = IF stop THEN out ELSE Append(out, w)
  /\ wpc' = [wpc EXCEPT ![w] = "over"]
  /\ UNCHANGED <<inputs, drvall, ready, sem, sp_pc, sp_task>>

\* line 44: self.spawner.master.out.put(self.task)
ConsumerPut(w) ==
  /\ wpc[w] = "put"
  /\ out' = Append(out, w)
  /\ wpc' = [wpc EXCEPT ![w] = "over"]
  /\ UNCHANGED <<inputs, drvall, ready, sem, sp_pc, sp_task>>

Consumer(w) == ConsumerRun(w) \/ ConsumerProcess(w) \/ ConsumerRelease(w) \/ ConsumerPut(w)

Next ==
  \/ Driver
  \/ Spawner
  \/ \E w \in Tasks \cup {None} : Consumer(w)

Spec == Init /\ [][Next]_vars

\* the Spawner and the Consumers are scheduled and every process() returns;
\* the driver goes on once it has seen stop (the test of the loop, the loop
\* that collects the tasks in flight, the last two lines)
FairSpec ==
  /\ Spec
  /\ WF_vars(WhileNotStop)
  /\ WF_vars(DrainGetOut)
  /\ WF_vars(PutSentinel)
  /\ WF_vars(Spawner)
  /\ WF_vars(\E w \in Tasks \cup {None} : Consumer(w))

(***************************************************************************)
(* Properties                                                              *)
(***************************************************************************)
\* the tasks of the groups that the producer has given
Emitted ==
  UNION {SeqToSet(input.groups[i]) : i \in 1..(Len(input.groups) - Len(biter))}

\* t is inside process(), in a Consumer or in the driver
InProcess(t) == wpc[t] = "process" \/ (pc = "inline" /\ tsk = t)

\* k, a task or a barrier of the build as it was given, has run
Terminal(k) ==
  IF k \in DOMAIN input.tg
  THEN \A j \in input.tg[k].prev : hasrun[j] # NOT_RUN
  ELSE hasrun[k] # NOT_RUN

\* the tasks that must run before x, through the barriers
Preds(x) ==
  (input.run_after[x] \cap Tasks)
    \cup UNION {input.tg[g].prev : g \in input.run_after[x] \cap DOMAIN input.tg}

RECURSIVE Ancestors(_, _)
Ancestors(S, n) ==
  IF n = 0 THEN S ELSE Ancestors(S \cup UNION {Preds(x) : x \in S}, n - 1)

\* the lists given to prio_and_split that hold a dependency cycle
Batches ==
  {SeqToSet(input.groups[i]) : i \in 1..Len(input.groups)}
    \cup {SeqToSet(input.more_tasks[t]) : t \in Tasks}
CyclicBatches ==
  {T \in Batches : \E x \in T : x \in Ancestors(Preds(x), Cardinality(Tasks))}

\* prio_and_split has begun to visit the list T
Handed(T) == \E x \in T : visited[x] # 0

\* the group (position in the producer's stream) of a task of a group
GroupOf(t) == CHOOSE i \in 1..Len(input.groups) : t \in SeqToSet(input.groups[i])
InGroups == UNION {SeqToSet(input.groups[i]) : i \in 1..Len(input.groups)}

\* t was handed to execution and get_out has not taken it back
InFlight(t) ==
  \/ t \in SeqToSet(ready) \/ t \in SeqToSet(out)
  \/ (sp_pc \in {"acquire", "spawn"} /\ sp_task = t)
  \/ wpc[t] \in {"run", "process", "release", "put"}
  \/ (pc = "inline" /\ tsk = t)

\* C1: a task that is inside process(), or has ended with SUCCESS, has every
\* member of its run_after (task or TaskGroup barrier) terminal; as hasrun is
\* never reset and entering process() changes no hasrun, the predecessors were
\* terminal before process() was invoked
C1_RespectDependencies ==
  \A t \in Tasks :
    (InProcess(t) \/ hasrun[t] = SUCCESS) => \A k \in input.run_after[t] : Terminal(k)

C1_Witness ==
  \E t \in Tasks :
    /\ Cardinality(input.run_after[t]) >= 1
    /\ hasrun[t] = SUCCESS
    /\ wpc[t] = "over"
    /\ \E k \in Preds(t) : hasrun[k] = SUCCESS

\* C2: at most numjobs threads are inside process(), and with numjobs == 1
\* no Consumer ever is
C2_BoundedConcurrency ==
  /\ Cardinality({t \in Tasks : InProcess(t)}) <= numjobs
  /\ numjobs = 1 => \A t \in Tasks : wpc[t] # "process"

C2_Witness ==
  /\ numjobs = 2
  /\ Cardinality({t \in Tasks : wpc[t] = "process"}) = 2
  /\ sp_pc = "acquire"
  /\ sp_task \in Tasks

C4_FailureStops ==
  \A a, b \in Tasks :
    (/\ keep = 0 /\ pc = "done"
     /\ hasrun[a] = CRASHED /\ a \in input.run_after[b]
     /\ \A t \in Tasks : ~err_msg[t])
      => (stop /\ error = <<a>> /\ b \notin SeqToSet(dispatched))

\* C5: once prio_and_split has begun on a list with a dependency cycle, start()
\* has raised the dependency-cycle error, and no task of the list is ever in
\* outstanding, handed to execution or run
C5_CycleDetection ==
  \A T \in CyclicBatches :
    /\ Handed(T) => (pc = "raised" /\ exc = "WafError: Task dependency cycle")
    /\ \A x \in T : /\ x \notin SeqToSet(outstanding)
                    /\ x \notin SeqToSet(dispatched)
                    /\ hasrun[x] = NOT_RUN

\* C6: when start() raises out of the stall (nothing outstanding, nothing in
\* flight, tasks incomplete), the error is the deadlock error with its message
Stalled == outstanding = <<>> /\ count = 0 /\ incomplete # <<>>
C6_DeadlockDetected ==
  (pc = "raised" /\ Stalled /\ exc \notin {"WafError: Task dependency cycle", "TypeError", "KeyError"})
    => exc = DeadlockMessage

\* C7: once stop is set start() returns, and then count is 0 and every task
\* handed to execution has been taken back
C7_Returned ==
  (pc = "done" /\ stop) =>
    /\ count = 0
    /\ \A i \in 1..Len(dispatched) : ~InFlight(dispatched[i])
C7_TerminationAfterStop == (stop ~> pc = "done") /\ []C7_Returned

C7_Witness ==
  /\ pc = "done" /\ stop /\ numjobs = 2
  /\ \E i \in 1..Len(dispatched) : hasrun[dispatched[i]] = NOT_RUN
  /\ \E i \in 1..Len(dispatched) : hasrun[dispatched[i]] # NOT_RUN

\* C8: next(self.biter) is called only when outstanding and incomplete are
\* empty and count is 0, and no task of a later group is handed to execution
\* while a task of an earlier group is outstanding, incomplete or in flight
C8_GroupOrdering ==
  [][ /\ (pc = "refill_tail" /\ pc' # "refill")
           => (outstanding = <<>> /\ incomplete = <<>> /\ count = 0)
      /\ \A b \in InGroups :
           (dispatched' = Append(dispatched, b)) =>
             \A a \in InGroups :
               GroupOf(a) < GroupOf(b) =>
                 /\ a \notin SeqToSet(outstanding) \cup SeqToSet(incomplete)
                 /\ ~InFlight(a) ]_vars

\* C9: in a step that starts or ends with stop set, no task is handed to
\* execution: nothing but the null task is added to ready and nothing is run
\* inline
C9_StopBlocksDispatch ==
  [][ (stop \/ stop') =>
        /\ dispatched' = dispatched
        /\ pc' # "inline"
        /\ (Len(ready') > Len(ready) => ready' = Append(ready, None)) ]_vars

C9_Witness ==
  /\ stop
  /\ outstanding # <<>>
  /\ \E t \in Tasks : wpc[t] = "process"

\* C10 as claimed: the main loop is left (for the lines after it) only with
\* stop set and count 0, or with the producer exhausted, nothing outstanding,
\* nothing incomplete and count 0
C10_LoopExit ==
  [][ (pc # "drain" /\ pc' = "drain") =>
        \/ (stop' /\ count' = 0)
        \/ (biter' = <<>> /\ outstanding' = <<>> /\ incomplete' = <<>> /\ count' = 0) ]_vars

\* C10 amended: the main loop is left only with stop set (count may be
\* positive), or with the producer exhausted, nothing outstanding, nothing
\* incomplete and count 0
C10_LoopExitAmended ==
  [][ (pc # "drain" /\ pc' = "drain") =>
        \/ stop'
        \/ (biter' = <<>> /\ outstanding' = <<>> /\ incomplete' = <<>> /\ count' = 0) ]_vars

C10_Witness ==
  /\ pc = "drain" /\ stop /\ count > 0 /\ biter = <<>>

\* runnable_status() of t raises in this step (task_status records err_msg)
Raises(t) == ~err_msg[t] /\ err_msg'[t]

\* C11: when runnable_status() raises while stop is false, the step sets stop
\* if keep is 0 or 1 and leaves it false if keep >= 2; with keep >= 2 stop is
\* never set by any step
C11_KeepGoingPolicy ==
  [][ /\ \A t \in Tasks : (Raises(t) /\ ~stop) => (stop' <=> keep <= 1)
      /\ keep >= 2 => ~stop' ]_vars

C11_Witness ==
  /\ keep >= 2 /\ ~stop /\ pc = "done"
  /\ Cardinality({t \in Tasks : err_msg[t]}) >= 2

C13_TightBound ==
  /\ [][dispatched' # dispatched => count <= numjobs * GAP]_vars
  /\ [](count <= numjobs * GAP)

\* C13 amended: no task is handed to execution while count > numjobs * GAP,
\* and count never exceeds numjobs * GAP + 1
C13_TightBoundAmended ==
  /\ [][dispatched' # dispatched => count <= numjobs * GAP]_vars
  /\ [](count <= numjobs * GAP + 1)

C13_Witness ==
  /\ count = numjobs * GAP + 1
  /\ Len(out) = count
  /\ Len(dispatched) > count

\* the first task of the group i that was handed to execution
FirstDispatched(i) ==
  dispatched[CHOOSE j \in 1..Len(dispatched) :
               /\ dispatched[j] \in SeqToSet(input.groups[i])
               /\ \A k \in 1..(j - 1) : dispatched[k] \notin SeqToSet(input.groups[i])]

TakesGroup == pc = "refill_tail" /\ pc' = "next" /\ outstanding = <<>>

C15_DispatcherShutdown ==
  /\ wpc[None] = "none"
  /\ None \notin SeqToSet(out)
  /\ (pc = "done" /\ ready = <<>>) => sp_pc # "get"

\* the tasks that the driver has made progress on: handed to execution,
\* skipped, cancelled, or failed in runnable_status()
Progress ==
  Len(dispatched) + Cardinality({t \in Tasks : hasrun[t] \in {SKIPPED, CANCELED, EXCEPTION}})

\* C16: processed never decreases; at the head of the loop of start() it is
\* the number of tasks the driver has made progress on; and when the chain
\* A -> B -> C has run to completion with numjobs = 2, processed is 3 and
\* error is empty
C16_ProcessedCount ==
  /\ [][processed' >= processed]_vars
  /\ [](pc = "loop" => processed = Progress)
  /\ []((/\ input = Chain /\ numjobs = 2 /\ pc = "done"
          /\ \A t \in Tasks : hasrun[t] = SUCCESS)
           => (processed = 3 /\ error = <<>>))

\* C17 as claimed: at the head of the loop of start(), every frozen task has
\* a predecessor in its run_after that has not run
C17_FrozenInvariant ==
  pc = "loop" => \A x \in frozen : \E k \in run_after[x] : HasRunOf(Drv, k) = NOT_RUN

\* mark_finished has not yet told x that its predecessor k is over: k is a
\* task that has x among its revdeps, or a barrier that still waits for a task
Pending(x, k) ==
  IF k \in Barriers THEN tg[k].prev # {} ELSE x \in revdeps[k]

\* C17 amended: at the head of the loop of start(), every frozen task has a
\* predecessor in its run_after that has not run, or whose end mark_finished
\* has not yet propagated (in flight, or failed in runnable_status())
C17_FrozenInvariantAmended ==
  pc = "loop" =>
    \A x \in frozen : \E k \in run_after[x] : HasRunOf(Drv, k) = NOT_RUN \/ Pending(x, k)

C17_Witness ==
  /\ pc = "loop" /\ ~stop
  /\ \E x \in frozen :
       /\ \A k \in run_after[x] : HasRunOf(Drv, k) # NOT_RUN
       /\ \E k \in run_after[x] : k \in SeqToSet(out)

\* C18 as claimed: when runnable_status() of t raises, whatever keep is, t
\* gets the hasrun EXCEPTION and is appended to error by error_handler
C18_RunnabilityException ==
  [][ \A t \in Tasks :
        Raises(t) => (hasrun'[t] = EXCEPTION /\ error' = Append(error, t)) ]_vars

\* C18 amended: when runnable_status() of t raises, err_msg is recorded; with
\* keep == 0, t gets the hasrun EXCEPTION and is appended to error; with
\* keep >= 1, t gets the hasrun SKIPPED and is appended to error only when
\* verbose, or when keep == 1 and error is empty
C18_RunnabilityExceptionAmended ==
  [][ \A t \in Tasks :
        Raises(t) =>
          IF keep = 0
          THEN hasrun'[t] = EXCEPTION /\ error' = Append(error, t)
          ELSE /\ hasrun'[t] = SKIPPED
               /\ error' = IF verbose \/ (keep = 1 /\ error = <<>>)
                            THEN Append(error, t) ELSE error ]_vars

C18_Witness ==
  /\ keep >= 2 /\ ~verbose
  /\ error = <<>>
  /\ \E t \in Tasks : err_msg[t] /\ hasrun[t] = SKIPPED

\* mark_finished was called for j: by skip or cancel, or by get_out
Reconciled(j) ==
  \/ hasrun[j] \in {SKIPPED, CANCELED}
  \/ (\E i \in 1..Len(dispatched) : dispatched[i] = j) /\ ~InFlight(j)

\* C19: for a barrier g that prio_and_split has registered, once every task
\* of g.prev has run and was reconciled by mark_finished, no task of g.next
\* is in frozen unless another of its predecessors has not run
C19_BarrierPropagation ==
  \A g \in Barriers :
    (tg[g].done /\ \A j \in input.tg[g].prev : hasrun[j] # NOT_RUN /\ Reconciled(j))
      => \A k \in input.tg[g].next :
           k \in frozen => \E q \in run_after[k] \ {g} : HasRunOf(Drv, q) = NOT_RUN

====
